---- MODULE Spec2Model ----
(***************************************************************************)
(* A model of the XLPP payload codec (src/Arduino/src/xlpp.cpp).           *)
(*                                                                         *)
(* One XLPP instance is modelled: its heap buffer `buf`, the capacity      *)
(* `size` given to the constructor and the single cursor `o` used by both  *)
(* the add* (write) and get* (read) operations.  Every public operation is *)
(* one action.  `hist` is a ghost record of the calls made so far, with    *)
(* their arguments, return values and the cursor after the call.           *)
(*                                                                         *)
(* Machine integers wider than a byte are bit vectors (functions from the  *)
(* bit index to 0/1), so that 32- and 64-bit values keep their width.      *)
(***************************************************************************)
EXTENDS Integers, Sequences, FiniteSets, TLC

VARIABLES size, buf, o, intBits, fault, hist

vars == <<size, buf, o, intBits, fault, hist>>

(***************************************************************************)
(* Bounds of the model.                                                    *)
(***************************************************************************)
\* Cells of heap modelled from the start of the buffer (capacity plus the
\* memory adjacent to it).
MemSize == 140
\* Calls per history.
MaxCalls == 4

(***************************************************************************)
(* Bit vectors.                                                            *)
(***************************************************************************)
Pow2(n) == 2 ^ n

\* The w-bit two's complement vector of a natural number n < 2^31.
NatToBV(n, w) == [k \in 0..(w - 1) |-> IF k < 31 THEN (n \div Pow2(k)) % 2 ELSE 0]

BVNot(v) == [k \in DOMAIN v |-> 1 - v[k]]

BVOr(a, b) == [k \in DOMAIN a |-> IF a[k] = 1 \/ b[k] = 1 THEN 1 ELSE 0]

\* v << s and v >> s (logical), for 0 <= s.
BVShl(v, s) == [k \in DOMAIN v |-> IF k - s \in DOMAIN v THEN v[k - s] ELSE 0]

BVShr(v, s) == [k \in DOMAIN v |-> IF k + s \in DOMAIN v THEN v[k + s] ELSE 0]

\* The w-bit two's complement vector of an integer -2^31 < n < 2^31.
IntToBV(n, w) == IF n >= 0 THEN NatToBV(n, w) ELSE BVNot(NatToBV(-n - 1, w))

\* Conversion to another width: truncation, or extension by `fillBit`.
BVResize(v, w, fillBit) == [k \in 0..(w - 1) |-> IF k \in DOMAIN v THEN v[k] ELSE fillBit]

RECURSIVE BVLow(_, _)
\* The value of the low n bits of v (n <= 30).
BVLow(v, n) == IF n = 0 THEN 0 ELSE BVLow(v, n - 1) + v[n - 1] * Pow2(n - 1)

\* Whether any bit at index >= n is set, i.e. v >= 2^n as an unsigned number.
BVAtLeast(v, n) == \E k \in DOMAIN v : k >= n /\ v[k] = 1

(***************************************************************************)
(* The heap.  A cell holds a byte, or Uninit: malloc (line 7) does not     *)
(* initialise the buffer, and the memory after it belongs to someone else. *)
(* Reading an Uninit cell yields an indeterminate byte.                    *)
(***************************************************************************)
Uninit == -1

Byte == 0..255

Mem == 0..(MemSize - 1)

\* Values an indeterminate byte is read as.
Garbage == {0, 255}

\* The memory as one read pass sees it, indeterminate cells read as g.
Resolve(m, g) == [k \in Mem |-> IF m[k] = Uninit THEN g ELSE m[k]]

\* buf[k] for a read; cells outside the modelled heap are never relied on
\* (an action whose accesses leave the modelled heap is disabled).
Rd(m, k) == IF k \in Mem THEN m[k] ELSE 0

\* #define _WRITE(v) buf[o++] = (v)&0xff;  for a sequence of byte values
WriteBytes(m, at, bytes) ==
    [k \in Mem |-> IF k >= at /\ k < at + Len(bytes) THEN bytes[k - at + 1] % 256 ELSE m[k]]

(***************************************************************************)
(* Type tags (xlpp.h).                                                     *)
(***************************************************************************)
LPP_DIGITAL_INPUT == 0
LPP_DIGITAL_OUTPUT == 1
LPP_ANALOG_INPUT == 2
LPP_ANALOG_OUTPUT == 3
LPP_LUMINOSITY == 101
LPP_PRESENCE == 102
LPP_TEMPERATURE == 103
LPP_RELATIVE_HUMIDITY == 104
LPP_ACCELEROMETER == 113
LPP_BAROMETRIC_PRESSURE == 115
LPP_VOLTAGE == 116
LPP_CURRENT == 117
LPP_FREQUENCY == 118
LPP_PERCENTAGE == 120
LPP_ALTITUDE == 121
LPP_CONCENTRATION == 125
LPP_POWER == 128
LPP_DISTANCE == 130
LPP_ENERGY == 131
LPP_DIRECTION == 132
LPP_UNIXTIME == 133
LPP_GYROMETER == 134
LPP_COLOUR == 135
LPP_GPS == 136
LPP_SWITCH == 142
XLPP_INTEGER == 51
XLPP_STRING == 52
XLPP_BOOL_TRUE == 54
XLPP_BOOL_FALSE == 55
XLPP_OBJECT == 123
XLPP_END_OF_OBJECT == 0
XLPP_ARRAY == 91
XLPP_END_OF_ARRAY == 93
XLPP_BINARY == 57
XLPP_NULL == 58


(***************************************************************************)
(* Construction, the calling discipline and the commit of one call.        *)
(***************************************************************************)
\* XLPP::XLPP(uint8_t size): buf = malloc(size); o = 0.  The width of int
\* (16 bits on AVR, 32 on ARM and ESP32) is fixed with the build.
Construct(caps, ints) ==
    /\ size \in caps
    /\ buf = [k \in Mem |-> Uninit]
    /\ o = 0
    /\ intBits \in ints
    /\ fault = FALSE
    /\ hist = <<>>

\* No channel byte: the unqualified form of an add operation.
NoChannel == -1

\* if a channel is given:  buf[o++] = channel;
Chan(ch) == IF ch = NoChannel THEN <<>> ELSE <<ch>>

\* The index of the last reset in h (0: none) and the kinds of the calls
\* made since.
LastReset(h) ==
    IF \E k \in 1..Len(h) : h[k].op = "reset"
    THEN CHOOSE k \in 1..Len(h) : h[k].op = "reset" /\ \A j \in (k + 1)..Len(h) : h[j].op # "reset"
    ELSE 0

Since(h) == {h[k].kind : k \in (LastReset(h) + 1)..Len(h)}

\* Buffer-writing calls of a history (add*, begin*, end*, a transport fill).
Records(h) == Cardinality({k \in 1..Len(h) : h[k].kind = "add"})

\* The caller's side of the contract: a pass over the buffer either writes
\* or reads, reset is the transition between passes and a decode pass
\* starts with one.
MayCall(kind) ==
    CASE kind = "add" -> "get" \notin Since(hist)
      [] kind = "get" -> LastReset(hist) > 0 /\ "add" \notin Since(hist)
      [] OTHER -> TRUE

\* The decode loop dispatches on the tag getType returned: a typed getter is
\* called right after getType, for a tag of its kind.
Dispatched(tags) ==
    /\ Len(hist) > 0
    /\ hist[Len(hist)].op = "getType"
    /\ hist[Len(hist)].ret \in tags

\* The state after a call.  r is the operation's result on the current
\* state: [buf, o, ret, note, top], ret the value returned (with the
\* caller's out-buffers), note the path taken, top one past the highest heap
\* index accessed.
Commit(kind, op, ch, arg, r) ==
    /\ ~fault
    /\ MayCall(kind)
    /\ r.top <= MemSize
    /\ r.o <= MemSize
    /\ buf' = r.buf
    /\ o' = r.o
    /\ hist' = Append(hist, [kind |-> kind, op |-> op, ch |-> ch, arg |-> arg,
                             ret |-> r.ret, note |-> r.note, o |-> r.o])
    /\ UNCHANGED <<size, intBits, fault>>

Max(a, b) == IF a >= b THEN a ELSE b

\* The bounds of a specification: calls, and buffer-writing calls, per
\* history.
CanCall(calls) == Len(hist) < calls

CanAdd(calls, records) == Len(hist) < calls /\ Records(hist) < records

\* A write result: bytes stored at cursor `at`, the cursor advanced by adv.
Written(m, at, bytes, adv) ==
    [buf |-> WriteBytes(m, at, bytes), o |-> at + adv, ret |-> <<>>, note |-> "",
     top |-> at + Len(bytes)]

\* Nothing guards a write past the capacity: the bytes land in the memory
\* after the buffer, and the corrupted heap may bring the process down at
\* any later point.
Overrun == o > size \/ \E k \in Mem : k >= size /\ buf[k] # Uninit

Crash ==
    /\ ~fault
    /\ Overrun
    /\ fault' = TRUE
    /\ UNCHANGED <<size, buf, o, intBits, hist>>

(***************************************************************************)
(* Head: reset, getSize, getBuffer, getChannel, getType.                   *)
(***************************************************************************)
\* void XLPP::reset(void) { o = 0; }
Reset ==
    Commit("reset", "reset", NoChannel, <<>>,
           [buf |-> buf, o |-> 0, ret |-> <<>>, note |-> "", top |-> 0])

\* uint8_t XLPP::getSize(void) { return o; }
getSize == o % 256

\* uint8_t buf[o++], an indeterminate cell read as g
ReadByteOp(m, at, g) ==
    [buf |-> m, o |-> at + 1, ret |-> Rd(Resolve(m, g), at), note |-> "", top |-> at + 1]

\* uint8_t XLPP::getType() { return buf[o++]; }
GetType == \E g \in Garbage : Commit("get", "getType", NoChannel, <<>>, ReadByteOp(buf, o, g))

\* uint8_t XLPP::getChannel() { return buf[o++]; }
GetChannel == \E g \in Garbage : Commit("get", "getChannel", NoChannel, <<>>, ReadByteOp(buf, o, g))

\* XLPP::getBuffer(): the transport stores a received payload in the
\* storage it is handed, from its first byte and within the capacity; the
\* cursor is not involved.
FillBuffer(bytes) ==
    /\ Len(bytes) <= size
    /\ Commit("add", "fill", NoChannel, bytes, Written(buf, 0, bytes, o))

(***************************************************************************)
(* The primitive packer: the WRITE_ and READ_ macros (lines 18-50).        *)
(***************************************************************************)
\* The width in bits of a wire type; int24_t and uint24_t are defined as
\* int32_t and uint32_t (lines 18-19).
Bits(t) ==
    CASE t \in {"uint8_t", "int8_t"} -> 8
      [] t \in {"uint16_t", "int16_t"} -> 16
      [] OTHER -> 32

IsSigned(t) == t \in {"int8_t", "int16_t", "int24_t", "int32_t"}

\* The bytes WRITE_##t stores.
WireBytes(t) ==
    CASE t \in {"uint8_t", "int8_t"} -> 1
      [] t \in {"uint16_t", "int16_t"} -> 2
      [] t \in {"uint24_t", "int24_t"} -> 3
      [] OTHER -> 4

BVWidth(v) == Cardinality(DOMAIN v)

BVZero(w) == [k \in 0..(w - 1) |-> 0]

\* WRITE_uint16_t(v): _WRITE(v >> 8); _WRITE(v);  and likewise for 1, 3 and
\* 4 bytes: the most significant byte first.
BEBytes(v, n) == [j \in 1..n |-> BVLow(BVShr(v, 8 * (n - j)), 8)]

\* v << c.  A count of at least the width of v is undefined: the result is 0
\* where the shifter takes the whole count (ARM, AVR) and v << (c mod width)
\* where it masks the count (x86).
ShlUB(v, c) ==
    IF c < BVWidth(v) THEN {BVShl(v, c)} ELSE {BVZero(BVWidth(v)), BVShl(v, c % BVWidth(v))}

\* The orders in which the _READs of one expression may take their bytes:
\* the reads are unsequenced operands of << and + before C++17.
Perms(n) == {p \in [1..n -> 1..n] : \A i, j \in 1..n : p[i] = p[j] => i = j}

\* The values of READ_uint16_t at cursor `at`:
\*     uint16_t(_READ) << 8 + uint16_t(_READ)
\* + binds tighter than <<, so this is  first << (8 + second), computed in
\* int (signed where int is wider than 16 bits).
Read16(m, at, ib) ==
    UNION {ShlUB(NatToBV(Rd(m, at + p[1] - 1), ib), 8 + Rd(m, at + p[2] - 1)) : p \in Perms(2)}

\* READ_uint24_t:  uint24_t(_READ) << 16 + uint24_t(_READ) << 8 + uint24_t(_READ)
\* is  (first << (16 + second)) << (8 + third), in uint32_t.
Read24(m, at) ==
    UNION {UNION {ShlUB(x, 8 + Rd(m, at + p[3] - 1)) :
                  x \in ShlUB(NatToBV(Rd(m, at + p[1] - 1), 32), 16 + Rd(m, at + p[2] - 1))} :
           p \in Perms(3)}

\* READ_uint32_t:  ((first << (24 + second)) << (16 + third)) << (8 + fourth)
Read32(m, at) ==
    UNION {UNION {UNION {ShlUB(y, 8 + Rd(m, at + p[4] - 1)) :
                         y \in ShlUB(x, 16 + Rd(m, at + p[3] - 1))} :
                  x \in ShlUB(NatToBV(Rd(m, at + p[1] - 1), 32), 24 + Rd(m, at + p[2] - 1))} :
           p \in Perms(4)}

\* A cast to a signed or unsigned integer type of w bits.
Cast(x, w, signed) ==
    [bits |-> BVResize(x.bits, w, IF x.signed THEN x.bits[BVWidth(x.bits) - 1] ELSE 0),
     signed |-> signed]

\* The values of READ_##t at cursor `at`, each [bits, signed]; READ_int16_t
\* is int16_t(READ_uint16_t), and so on (lines 41-50).
ReadWire(t, m, at, ib) ==
    CASE t \in {"uint8_t", "int8_t"} ->
            {Cast([bits |-> NatToBV(Rd(m, at), 8), signed |-> FALSE], 8, IsSigned(t))}
      [] t = "uint16_t" -> {[bits |-> x, signed |-> ib > 16] : x \in Read16(m, at, ib)}
      [] t = "int16_t" ->
            {Cast([bits |-> x, signed |-> ib > 16], 16, TRUE) : x \in Read16(m, at, ib)}
      [] t = "uint24_t" -> {[bits |-> x, signed |-> FALSE] : x \in Read24(m, at)}
      [] t = "int24_t" -> {[bits |-> x, signed |-> TRUE] : x \in Read24(m, at)}
      [] OTHER -> {[bits |-> x, signed |-> IsSigned(t)] : x \in Read32(m, at)}

(***************************************************************************)
(* The fixed-point sensor codec: the XLPP_ pattern (lines 52-67) and its   *)
(* instances.  A float is modelled as an exact fraction [num, den]; a      *)
(* value of an unsigned integer type is a bit vector of its width.         *)
(***************************************************************************)
K(tag, value_t, multi, wire_t) ==
    [tag |-> tag, value_t |-> value_t, multi |-> multi, wire_t |-> wire_t]

\* XLPP_(NAME, TYPE, VALUE_T, MULTI, WIRE_T), lines 102-109, 141, 201-212
Kind(name) ==
    CASE name = "DigitalInput" -> K(LPP_DIGITAL_INPUT, "uint8_t", 1, "uint8_t")
      [] name = "DigitalOutput" -> K(LPP_DIGITAL_INPUT, "uint8_t", 1, "uint8_t")
      [] name = "AnalogInput" -> K(LPP_ANALOG_INPUT, "float", 100, "int16_t")
      [] name = "AnalogOutput" -> K(LPP_ANALOG_OUTPUT, "float", 100, "int16_t")
      [] name = "Luminosity" -> K(LPP_LUMINOSITY, "uint16_t", 1, "uint16_t")
      [] name = "Presence" -> K(LPP_PRESENCE, "uint8_t", 1, "uint8_t")
      [] name = "Temperature" -> K(LPP_TEMPERATURE, "float", 10, "int16_t")
      [] name = "RelativeHumidity" -> K(LPP_RELATIVE_HUMIDITY, "float", 2, "int8_t")
      [] name = "BarometricPressure" -> K(LPP_BAROMETRIC_PRESSURE, "float", 10, "int16_t")
      [] name = "Voltage" -> K(LPP_VOLTAGE, "float", 100, "uint16_t")
      [] name = "Current" -> K(LPP_CURRENT, "float", 1000, "uint16_t")
      [] name = "Frequency" -> K(LPP_FREQUENCY, "uint32_t", 1, "uint32_t")
      [] name = "Percentage" -> K(LPP_PERCENTAGE, "uint8_t", 1, "uint8_t")
      [] name = "Altitude" -> K(LPP_ALTITUDE, "float", 1, "uint16_t")
      [] name = "Power" -> K(LPP_POWER, "uint16_t", 1, "uint16_t")
      [] name = "Distance" -> K(LPP_DISTANCE, "float", 1000, "uint32_t")
      [] name = "Energy" -> K(LPP_ENERGY, "float", 1000, "uint32_t")
      [] name = "UnixTime" -> K(LPP_UNIXTIME, "uint32_t", 1, "uint32_t")
      [] name = "Direction" -> K(LPP_DIRECTION, "float", 1, "uint16_t")
      [] name = "Switch" -> K(LPP_SWITCH, "uint8_t", 1, "uint8_t")
      [] name = "Concentration" -> K(LPP_CONCENTRATION, "uint16_t", 1, "uint16_t")

ScalarKinds ==
    {"DigitalInput", "DigitalOutput", "AnalogInput", "AnalogOutput", "Luminosity",
     "Presence", "Temperature", "RelativeHumidity", "BarometricPressure", "Voltage",
     "Current", "Frequency", "Percentage", "Altitude", "Power", "Distance", "Energy",
     "UnixTime", "Direction", "Switch", "Concentration"}

F(num, den) == [num |-> num, den |-> den]

\* Integer division rounding toward zero, as a float converts to an integer.
TruncDiv(a, b) == IF a >= 0 THEN a \div b ELSE -((-a) \div b)

RECURSIVE GCD(_, _)
GCD(a, b) == IF b = 0 THEN a ELSE GCD(b, a % b)

\* int(value * multi) for a float value, the fraction reduced before the
\* multiplication
Scaled(value, multi) ==
    LET g == GCD(multi, value.den)
    IN  TruncDiv(value.num * (multi \div g), value.den \div g)

\* Whether the integer n is a value of the integer type of w bits (n is
\* below 2^31 in magnitude).
InRange(n, w, signed) ==
    IF w > 30
    THEN signed \/ n >= 0
    ELSE IF signed THEN n >= -Pow2(w - 1) /\ n < Pow2(w - 1) ELSE n >= 0 /\ n < Pow2(w)

\* WIRE_T(value * multi).  The conversion of a float whose truncated value
\* the type cannot hold is undefined; the add actions take only values that
\* fit the bytes written (Fits).
ToWire(value_t, value, multi, wire_t) ==
    IF value_t = "float"
    THEN IntToBV(Scaled(value, multi), Bits(wire_t))
    ELSE BVResize(value, Bits(wire_t), 0)

Fits(value_t, value, multi, wire_t) ==
    value_t = "float" => InRange(Scaled(value, multi), WireBytes(wire_t) * 8, IsSigned(wire_t))

\* void XLPP::add##NAME(VALUE_T value), after the channel byte of
\* add##NAME(uint8_t channel, VALUE_T value) when one is given:
\*     buf[o++] = TYPE; WIRE_T v = value * MULTI; WRITE_##WIRE_T(v);
AddScalarOp(m, at, ch, name, value) ==
    LET k == Kind(name)
        v == ToWire(k.value_t, value, k.multi, k.wire_t)
        bytes == Chan(ch) \o <<k.tag>> \o BEBytes(v, WireBytes(k.wire_t))
    IN  Written(m, at, bytes, Len(bytes))

\* VALUE_T(x) / multi for the value x of a READ_ expression: a float is
\* the fraction bits/den, an unsigned integer is divided as an integer (multi
\* is 1 for every integer kind).
FromWire(value_t, x, multi) ==
    IF value_t = "float"
    THEN [bits |-> x.bits, signed |-> x.signed, den |-> multi]
    ELSE [bits |-> Cast(x, Bits(value_t), FALSE).bits, signed |-> FALSE, den |-> 1]

\* VALUE_T XLPP::get##NAME() { return VALUE_T(READ_##WIRE_T) / MULTI; }
\* The results it may produce at cursor `at`, indeterminate cells read as g.
GetScalarOps(m, at, name, ib, g) ==
    LET k == Kind(name)
        n == WireBytes(k.wire_t)
    IN  {[buf |-> m, o |-> at + n, ret |-> FromWire(k.value_t, x, k.multi), note |-> "",
          top |-> at + n] : x \in ReadWire(k.wire_t, Resolve(m, g), at, ib)}

AddScalar(ch, name, value) ==
    /\ Fits(Kind(name).value_t, value, Kind(name).multi, Kind(name).wire_t)
    /\ Commit("add", "add" \o name, ch, value, AddScalarOp(buf, o, ch, name, value))

GetScalar(name) ==
    /\ Dispatched({Kind(name).tag})
    /\ \E g \in Garbage : \E r \in GetScalarOps(buf, o, name, intBits, g) :
           Commit("get", "get" \o name, NoChannel, <<>>, r)

(***************************************************************************)
(* Accelerometer, Gyrometer, GPS and Colour (lines 113-137, 145-197,       *)
(* 216-237): three components each.                                        *)
(***************************************************************************)
\* [tag, value_t, wire_t, multi of each component]
Triple(name) ==
    CASE name = "Accelerometer" ->
            [tag |-> LPP_ACCELEROMETER, value_t |-> "float", wire_t |-> "int16_t",
             multi |-> <<1000, 1000, 1000>>]
      [] name = "Gyrometer" ->
            [tag |-> LPP_GYROMETER, value_t |-> "float", wire_t |-> "int16_t",
             multi |-> <<100, 100, 100>>]
      [] name = "GPS" ->
            [tag |-> LPP_GPS, value_t |-> "float", wire_t |-> "int24_t",
             multi |-> <<10000, 10000, 100>>]
      [] name = "Colour" ->
            [tag |-> LPP_COLOUR, value_t |-> "uint8_t", wire_t |-> "uint8_t",
             multi |-> <<1, 1, 1>>]

TripleKinds == {"Accelerometer", "Gyrometer", "GPS", "Colour"}

\* void XLPP::addAccelerometer(float x, float y, float z) and its like:
\*     buf[o++] = TYPE; int16_t vx = int16_t(x * 1000); WRITE_int16_t(vx); ...
AddTripleOp(m, at, ch, name, xyz) ==
    LET k == Triple(name)
        n == WireBytes(k.wire_t)
        c(j) == BEBytes(ToWire(k.value_t, xyz[j], k.multi[j], k.wire_t), n)
        bytes == Chan(ch) \o <<k.tag>> \o c(1) \o c(2) \o c(3)
    IN  Written(m, at, bytes, Len(bytes))

\* Accelerometer XLPP::getAccelerometer() and its like:
\*     a.x = float(READ_int16_t) / 1000; a.y = ...; a.z = ...;
GetTripleOps(m, at, name, ib, g) ==
    LET k == Triple(name)
        n == WireBytes(k.wire_t)
        rd(j) == {FromWire(k.value_t, x, k.multi[j]) :
                  x \in ReadWire(k.wire_t, Resolve(m, g), at + (j - 1) * n, ib)}
    IN  {[buf |-> m, o |-> at + 3 * n, ret |-> <<x, y, z>>, note |-> "", top |-> at + 3 * n] :
         x \in rd(1), y \in rd(2), z \in rd(3)}

AddTriple(ch, name, xyz) ==
    /\ \A j \in 1..3 : Fits(Triple(name).value_t, xyz[j], Triple(name).multi[j], Triple(name).wire_t)
    /\ Commit("add", "add" \o name, ch, xyz, AddTripleOp(buf, o, ch, name, xyz))

GetTriple(name) ==
    /\ Dispatched({Triple(name).tag})
    /\ \E g \in Garbage : \E r \in GetTripleOps(buf, o, name, intBits, g) :
           Commit("get", "get" \o name, NoChannel, <<>>, r)

(***************************************************************************)
(* Variable-length integers: addInteger, getInteger.                       *)
(***************************************************************************)
\* uint8_t(ui)
LowByte(ui) == BVLow(ui, 8)

RECURSIVE VarintBytes_Gt(_)
\* VarintBytes with the loop test ui > 0x80 in place of ui >= 0x80.
VarintBytes_Gt(ui) ==
    IF BVAtLeast(ui, 8) \/ (BVAtLeast(ui, 7) /\ LowByte(ui) % 128 # 0)
    THEN <<(LowByte(ui) % 128) + 128>> \o VarintBytes_Gt(BVShr(ui, 7))
    ELSE <<LowByte(ui)>>

RECURSIVE VarintBytes(_)
\* while (ui >= 0x80) { WRITE(uint8_t(ui) | 0x80); ui >>= 7; } WRITE(uint8_t(ui));
VarintBytes(ui) ==
    IF BVAtLeast(ui, 7)
    THEN <<(LowByte(ui) % 128) + 128>> \o VarintBytes(BVShr(ui, 7))
    ELSE <<LowByte(ui)>>

\* ZigZag without the complement of a negative value.
ZigZag_NoComplement(i) == BVShl(i, 1)

\* uint64_t ui = uint64_t(i) << 1; if (i<0) ui = ~ui;
ZigZag(i) == IF i[63] = 1 THEN BVNot(BVShl(i, 1)) ELSE BVShl(i, 1)

\* int64_t i = int64_t(ui >> 1); if (ui&1) i = ~i;
UnZigZag(ui) == IF ui[0] = 1 THEN BVNot(BVShr(ui, 1)) ELSE BVShr(ui, 1)

\* void XLPP::addInteger(int64_t i), with the channel byte of
\* addInteger(uint8_t channel, int64_t i) when one is given
AddIntegerOp(m, at, ch, i) ==
    LET bytes == Chan(ch) \o <<XLPP_INTEGER>> \o VarintBytes(ZigZag(i))
    IN  Written(m, at, bytes, Len(bytes))

Zero64 == NatToBV(0, 64)

RECURSIVE GetIntegerLoop(_, _, _, _, _)
\* The for loop of getInteger: i counts the bytes read, s is the shift.
GetIntegerLoop(m, p, i, ui, s) ==
    IF i = 10
    THEN [ret |-> Zero64, o |-> p, note |-> "overflow"]
    ELSE LET b == Rd(m, p)
         IN  IF b < 128
             THEN IF i = 9 /\ b > 1
                  THEN [ret |-> Zero64, o |-> p + 1, note |-> "overflow"]
                  ELSE [ret |-> UnZigZag(BVOr(ui, BVShl(NatToBV(b, 64), s))),
                        o |-> p + 1, note |-> "ok"]
             ELSE GetIntegerLoop(m, p + 1, i + 1,
                                 BVOr(ui, BVShl(NatToBV(b % 128, 64), s)), s + 7)

\* int64_t XLPP::getInteger(), indeterminate cells read as g
GetIntegerOp(m, at, g) ==
    LET r == GetIntegerLoop(Resolve(m, g), at, 0, Zero64, 0)
    IN  [buf |-> m, o |-> r.o, ret |-> r.ret, note |-> r.note, top |-> r.o]

AddInteger(ch, i) == Commit("add", "addInteger", ch, i, AddIntegerOp(buf, o, ch, i))

GetInteger ==
    /\ Dispatched({XLPP_INTEGER})
    /\ \E g \in Garbage : Commit("get", "getInteger", NoChannel, <<>>, GetIntegerOp(buf, o, g))

(***************************************************************************)
(* Strings: addString, getString(str), getString(str, limit).              *)
(* A string is the sequence of its bytes, none of them 0.                  *)
(***************************************************************************)
\* void XLPP::addString(const char *str):
\*     buf[o++] = XLPP_STRING; strcpy(buf+o, str); o += strlen(str);
\* strcpy stores the terminator too; the cursor stops on it.
AddStringOp(m, at, ch, str) ==
    Written(m, at, Chan(ch) \o <<XLPP_STRING>> \o str \o <<0>>, Len(Chan(ch)) + 1 + Len(str))

\* strlen(buf+p): the distance to the first 0 at or after index p (to the
\* end of the modelled heap when it holds none).
StrLen(m, p) ==
    IF \E k \in Mem : k >= p /\ m[k] = 0
    THEN (CHOOSE k \in Mem : k >= p /\ m[k] = 0 /\ \A j \in p..(k - 1) : m[j] # 0) - p
    ELSE Max(MemSize - p, 0)

\* The C string at index p: the bytes up to the first 0.
CStr(m, p) == [j \in 1..StrLen(m, p) |-> m[p + j - 1]]

\* void XLPP::getString(char *str):
\*     strcpy(str, buf+o); o += strlen(str);
GetStringOp(m, at, g) ==
    LET str == CStr(Resolve(m, g), at)
    IN  [buf |-> m, o |-> at + Len(str), ret |-> str, note |-> "", top |-> at + Len(str) + 1]

\* size_t XLPP::getString(char *str, size_t limit):
\*     for (; *buf != 0 && n<limit; n++) str[n] = buf[o++];
\*     if (n==limit) { while (buf[o++]); } else { str[n] = 0; o++; }
\*     return n;
\* The loop tests *buf, the first byte of the buffer.  ret is the count
\* returned and the characters stored in str.
GetStringLimitOp(m, at, limit, g) ==
    LET rm == Resolve(m, g)
        n == IF rm[0] # 0 THEN limit ELSE 0
        str == [j \in 1..n |-> Rd(rm, at + j - 1)]
        end == IF n = limit THEN at + n + Len(CStr(rm, at + n)) + 1 ELSE at + n + 1
    IN  [buf |-> m, o |-> end, ret |-> [n |-> n, str |-> str], note |-> "", top |-> end]

AddString(ch, str) == Commit("add", "addString", ch, str, AddStringOp(buf, o, ch, str))

GetString ==
    /\ Dispatched({XLPP_STRING})
    /\ \E g \in Garbage : Commit("get", "getString", NoChannel, <<>>, GetStringOp(buf, o, g))

GetStringLimit(limit) ==
    /\ Dispatched({XLPP_STRING})
    /\ \E g \in Garbage :
           Commit("get", "getStringLimit", NoChannel, limit, GetStringLimitOp(buf, o, limit, g))

(***************************************************************************)
(* Booleans and null: addBool, getBool, addNull, getNull.                  *)
(***************************************************************************)
\* void XLPP::addBool(bool b) { buf[o++] = b ? XLPP_BOOL_TRUE : XLPP_BOOL_FALSE; }
AddBoolOp(m, at, ch, b) ==
    LET bytes == Chan(ch) \o <<IF b THEN XLPP_BOOL_TRUE ELSE XLPP_BOOL_FALSE>>
    IN  Written(m, at, bytes, Len(bytes))

\* bool XLPP::getBool() { return READ_uint8_t != 0; }
GetBoolOp(m, at, g) ==
    [buf |-> m, o |-> at + 1, ret |-> Rd(Resolve(m, g), at) # 0, note |-> "", top |-> at + 1]

\* void XLPP::addNull() { buf[o++] = XLPP_NULL; }
AddNullOp(m, at, ch) == Written(m, at, Chan(ch) \o <<XLPP_NULL>>, Len(Chan(ch)) + 1)

\* void XLPP::getNull() { }   (a NOP)
GetNullOp(m, at) == [buf |-> m, o |-> at, ret |-> <<>>, note |-> "", top |-> at]

AddBool(ch, b) == Commit("add", "addBool", ch, b, AddBoolOp(buf, o, ch, b))

GetBool ==
    /\ Dispatched({XLPP_BOOL_TRUE, XLPP_BOOL_FALSE})
    /\ \E g \in Garbage : Commit("get", "getBool", NoChannel, <<>>, GetBoolOp(buf, o, g))

AddNull(ch) == Commit("add", "addNull", ch, <<>>, AddNullOp(buf, o, ch))

GetNull ==
    /\ Dispatched({XLPP_NULL})
    /\ Commit("get", "getNull", NoChannel, <<>>, GetNullOp(buf, o))

(***************************************************************************)
(* Objects and arrays: beginObject, addObjectKey, endObject, beginArray,   *)
(* endArray.                                                               *)
(***************************************************************************)
\* void XLPP::beginObject() { buf[o++] = XLPP_OBJECT; }  and the three like it
MarkerOp(m, at, ch, tag) == Written(m, at, Chan(ch) \o <<tag>>, Len(Chan(ch)) + 1)

\* void XLPP::addObjectKey(const char *key):
\*     strcpy(buf+o, key); o += strlen(key);
AddObjectKeyOp(m, at, key) == Written(m, at, key \o <<0>>, Len(key))

BeginObject(ch) == Commit("add", "beginObject", ch, <<>>, MarkerOp(buf, o, ch, XLPP_OBJECT))

AddObjectKey(key) == Commit("add", "addObjectKey", NoChannel, key, AddObjectKeyOp(buf, o, key))

EndObject ==
    Commit("add", "endObject", NoChannel, <<>>, MarkerOp(buf, o, NoChannel, XLPP_END_OF_OBJECT))

BeginArray(ch) == Commit("add", "beginArray", ch, <<>>, MarkerOp(buf, o, ch, XLPP_ARRAY))

EndArray ==
    Commit("add", "endArray", NoChannel, <<>>, MarkerOp(buf, o, NoChannel, XLPP_END_OF_ARRAY))

(***************************************************************************)
(* Binary blobs: addBinary, getBinary.                                     *)
(***************************************************************************)
RECURSIVE VarintOfSize(_)
\* while (s >= 0x80) { WRITE(uint8_t(s) | 0x80); s >>= 7; } WRITE(uint8_t(s));
VarintOfSize(s) ==
    IF s >= 128 THEN <<(s % 128) + 128>> \o VarintOfSize(s \div 128) ELSE <<s % 256>>

RECURSIVE SizeAfterVarint(_)
\* s as that loop leaves it: the loop shifts the parameter itself
SizeAfterVarint(s) == IF s >= 128 THEN SizeAfterVarint(s \div 128) ELSE s

\* void XLPP::addBinary(const void *data, size_t s):
\*     buf[o++] = XLPP_BINARY; size_t i = s; <the varint loop on s>
\*     memcpy(buf+o, data, s); o += s;
\* data is the sequence of the s bytes at the pointer.
AddBinaryOp(m, at, ch, data) ==
    LET s == SizeAfterVarint(Len(data))
        bytes == Chan(ch) \o <<XLPP_BINARY>> \o VarintOfSize(Len(data)) \o SubSeq(data, 1, s)
    IN  Written(m, at, bytes, Len(bytes))

\* a + b on bit vectors of one width
BVAdd(a, b) ==
    LET c[k \in 0..BVWidth(a)] == IF k = 0 THEN 0 ELSE (a[k - 1] + b[k - 1] + c[k - 1]) \div 2
    IN  [k \in DOMAIN a |-> (a[k] + b[k] + c[k]) % 2]

\* The number a 64-bit vector holds, as a shift count or a byte count; one
\* of 2^20 or more is given as a number of at least 2^20 with the same low
\* six bits.
Count(s) == IF BVAtLeast(s, 20) THEN Pow2(20) + BVLow(s, 6) ELSE BVLow(s, 20)

\* getBinary falls off its end without a return statement: the caller
\* receives whatever the return register holds, which may be the count n.
NoReturn(n) == {n} \cup Garbage

\* memcpy(data, buf+o, s); o += s;  and the fall off the end
CopyOut(m, p, s) ==
    LET n == Count(s)
    IN  IF p + n > MemSize
        THEN {[o |-> p + n, ret |-> [n |-> 0, data |-> <<>>], note |-> "ok"]}
        ELSE {[o |-> p + n, ret |-> [n |-> r, data |-> [j \in 1..n |-> Rd(m, p + j - 1)]],
               note |-> "ok"] : r \in NoReturn(n)}

RECURSIVE GetBinaryLoop(_, _, _, _)
\* The for loop of getBinary and what follows it.  s is both the
\* accumulator and the shift count:
\*     s |= uint64_t(b)<<s;  ...  s |= uint64_t(b&0x7f)<<s; s += 7;
GetBinaryLoop(m, p, i, s) ==
    IF i = 10
    THEN {[o |-> p, ret |-> [n |-> 0, data |-> <<>>], note |-> "overflow"]}
    ELSE LET b == Rd(m, p)
         IN  IF b < 128
             THEN IF i = 9 /\ b > 1
                  THEN {[o |-> p + 1, ret |-> [n |-> 0, data |-> <<>>], note |-> "overflow"]}
                  ELSE UNION {CopyOut(m, p + 1, BVOr(s, x)) :
                              x \in ShlUB(NatToBV(b, 64), Count(s))}
             ELSE UNION {GetBinaryLoop(m, p + 1, i + 1, BVAdd(BVOr(s, x), NatToBV(7, 64))) :
                         x \in ShlUB(NatToBV(b % 128, 64), Count(s))}

\* size_t XLPP::getBinary(void *data): the results it may produce, ret being
\* the value returned and the bytes stored at data.
GetBinaryOps(m, at, g) ==
    {[buf |-> m, o |-> r.o, ret |-> r.ret, note |-> r.note, top |-> r.o] :
     r \in GetBinaryLoop(Resolve(m, g), at, 0, NatToBV(0, 64))}

AddBinary(ch, data) == Commit("add", "addBinary", ch, data, AddBinaryOp(buf, o, ch, data))

GetBinary ==
    /\ Dispatched({XLPP_BINARY})
    /\ \E g \in Garbage : \E r \in GetBinaryOps(buf, o, g) :
           Commit("get", "getBinary", NoChannel, <<>>, r)

(***************************************************************************)
(* The 64-bit integers and the received payloads of the integer codec's    *)
(* specification.                                                          *)
(***************************************************************************)
Int64(n) == IntToBV(n, 64)

\* 2^32 - 1, -(2^32), the 64-bit maximum and minimum
I64_2p32m1 == [k \in 0..63 |-> IF k < 32 THEN 1 ELSE 0]

I64_m2p32 == [k \in 0..63 |-> IF k < 32 THEN 0 ELSE 1]

I64_Max == [k \in 0..63 |-> IF k < 63 THEN 1 ELSE 0]

I64_Min == [k \in 0..63 |-> IF k < 63 THEN 0 ELSE 1]

IntSamples ==
    {Int64(n) : n \in {0, 1, -1, 5, 63, 64, -64, 127, 128, 8191, 8192, 16383, 16384}}
    \cup {I64_2p32m1, I64_m2p32, I64_Max, I64_Min}

Rep(n, b) == [k \in 1..n |-> b]

\* Received integer records: a varint of ten continuation bytes and an
\* eleventh byte; one of nine continuation bytes and a tenth byte of 2; the
\* one-byte varint 0.
VarintFills ==
    {<<XLPP_INTEGER>> \o Rep(10, 255) \o <<1>>,
     <<XLPP_INTEGER>> \o Rep(9, 128) \o <<2>>,
     <<XLPP_INTEGER, 0>>}

Caps == {4, 136}

\* Buffer-writing calls per history of the integer codec's specification.
IntRecords == 1

InitInt == Construct(Caps, {32})

NextInt ==
    \/ CanAdd(MaxCalls, IntRecords) /\ (\E i \in IntSamples : AddInteger(NoChannel, i))
    \/ CanCall(MaxCalls) /\ GetInteger
    \/ CanCall(MaxCalls) /\ GetType
    \/ CanCall(MaxCalls) /\ Reset
    \/ CanAdd(MaxCalls, IntRecords) /\ (\E f \in VarintFills : FillBuffer(f))
    \/ Crash

SpecInt == InitInt /\ [][NextInt]_vars

(***************************************************************************)
(* Claims about the integer codec, under SpecInt.                          *)
(***************************************************************************)
\* The calls of the history are exactly ops, in order.
Calls(ops) == Len(hist) = Len(ops) /\ \A k \in 1..Len(ops) : hist[k].op = ops[k]

IntRoundTripCalls == Calls(<<"addInteger", "reset", "getType", "getInteger">>)

\* C2: for every signed 64-bit integer i, on an instance with enough
\* capacity, addInteger(i); reset(); getType(); getInteger() returns exactly
\* i and leaves the cursor equal to the size recorded after the encode.
C2_IntegerRoundTrip ==
    IntRoundTripCalls /\ hist[1].o <= size =>
        /\ hist[3].ret = XLPP_INTEGER
        /\ hist[4].ret = hist[1].arg
        /\ hist[4].note = "ok"
        /\ o = hist[1].o

\* The 64-bit minimum, whose varint takes all ten bytes, has been encoded
\* and read back within the capacity.
C2_Witness == IntRoundTripCalls /\ hist[1].o <= size /\ hist[1].arg = I64_Min /\ ~fault

\* The values getInteger returns when it decodes a well-formed varint.
DecodedValues ==
    {GetIntegerOp(AddIntegerOp([k \in Mem |-> Uninit], 0, NoChannel, v).buf, 1, 0).ret :
     v \in IntSamples}

\* C9: getInteger applied to a varint of more than ten bytes, or to one
\* whose tenth byte is a final byte greater than 1, reports an outcome
\* distinguishable from every successfully decoded integer (including 0).
C9_OverflowDistinguishable ==
    \A k \in 1..Len(hist) :
        hist[k].op = "getInteger" /\ hist[k].note = "overflow" /\ ~Overrun =>
            hist[k].ret \notin DecodedValues

\* The payload bytes of the integer record just added: those after its tag.
LastPayload ==
    LET from == IF Len(hist) = 1 THEN 0 ELSE hist[Len(hist) - 1].o
    IN  [j \in 1..(o - from - 1) |-> buf[from + j]]

\* addInteger(n) was the last call and stored p payload bytes after the tag,
\* all but the last with the high bit set.
Stored(n, p) ==
    Len(hist) > 0 /\ hist[Len(hist)].op = "addInteger" /\ hist[Len(hist)].arg = Int64(n) =>
        /\ Len(LastPayload) = p
        /\ \A j \in 1..p : (LastPayload[j] >= 128) <=> (j < p)

\* C10 as stated: addInteger(127) advances the cursor by 1 tag byte + 1
\* payload byte, addInteger(128) by 1 + 2, addInteger(16383) by 1 + 2 and
\* addInteger(16384) by 1 + 3, every payload byte except the last having
\* its high bit set.
C10_AsStated == Stored(127, 1) /\ Stored(128, 2) /\ Stored(16383, 2) /\ Stored(16384, 3)

\* C10 amended: the zigzag transform doubles a non-negative value before the
\* base-128 split, so the 1-to-2 byte boundary lies between 63 and 64 and
\* the 2-to-3 byte boundary between 8191 and 8192; addInteger(127) and
\* addInteger(128) both store 2 payload bytes, addInteger(16383) and
\* addInteger(16384) both 3; every payload byte except the last has its
\* high bit set.
C10_ZigZagBoundaries ==
    /\ Stored(63, 1) /\ Stored(64, 2) /\ Stored(-64, 1)
    /\ Stored(127, 2) /\ Stored(128, 2)
    /\ Stored(8191, 2) /\ Stored(8192, 3)
    /\ Stored(16383, 3) /\ Stored(16384, 3)

\* addInteger(64), the first value of two payload bytes, was the last call.
C10_Witness ==
    Len(hist) > 0 /\ hist[Len(hist)].op = "addInteger" /\ hist[Len(hist)].arg = Int64(64)
    /\ o = hist[Len(hist)].o /\ Len(LastPayload) = 2

(***************************************************************************)
(* The specification of the sensor codec: one record is added and read     *)
(* back by the decode loop.                                                *)
(***************************************************************************)
\* Floats around the resolution 1/multi: 1.5, 256.5 and -1.5 units.
FloatSamples(multi) == {F(h, 2 * multi) : h \in {3, 513, -3}}

UintSamples(w) ==
    {NatToBV(1, w), [k \in 0..(w - 1) |-> 1]} \cup (IF w > 8 THEN {NatToBV(256, w)} ELSE {})

ScalarSamples(name) ==
    IF Kind(name).value_t = "float"
    THEN FloatSamples(Kind(name).multi)
    ELSE UintSamples(Bits(Kind(name).value_t))

TripleSamples(name) ==
    CASE name = "Accelerometer" -> {<<F(3, 2000), F(-3, 2000), F(513, 2000)>>}
      [] name = "Gyrometer" -> {<<F(3, 200), F(-3, 200), F(513, 200)>>}
      [] name = "GPS" -> {<<F(451234, 10000), F(-735678, 10000), F(12345, 100)>>}
      [] name = "Colour" -> {<<NatToBV(1, 8), NatToBV(255, 8), NatToBV(0, 8)>>}

\* Buffer-writing calls per history of the sensor codec's specification.
SensorRecords == 1

InitSensor == Construct(Caps, {16, 32})

NextSensor ==
    \/ CanAdd(MaxCalls, SensorRecords)
       /\ \E name \in ScalarKinds : \E v \in ScalarSamples(name) : AddScalar(NoChannel, name, v)
    \/ CanAdd(MaxCalls, SensorRecords)
       /\ \E name \in TripleKinds : \E v \in TripleSamples(name) : AddTriple(NoChannel, name, v)
    \/ CanCall(MaxCalls) /\ (\E name \in ScalarKinds : GetScalar(name))
    \/ CanCall(MaxCalls) /\ (\E name \in TripleKinds : GetTriple(name))
    \/ CanCall(MaxCalls) /\ GetType
    \/ CanCall(MaxCalls) /\ Reset
    \/ Crash

SpecSensor == InitSensor /\ [][NextSensor]_vars

\* Whether the decoded value `ret` is within one unit of resolution
\* (1/multi) of the encoded float `value`, resp. is the encoded integer.
WithinUnit(value_t, value, multi, ret) ==
    IF value_t = "float"
    THEN LET g == GCD(multi, value.den)
             n == value.num * (multi \div g)
             d == value.den \div g
             t == TruncDiv(n, d)
         IN  \E w \in (t - 2)..(t + 2) :
                 /\ n - w * d <= d
                 /\ w * d - n <= d
                 /\ w < 0 => ret.signed
                 /\ ret.bits = IntToBV(w, BVWidth(ret.bits))
    ELSE ret.bits = value

\* C1: for every fixed sensor kind and every value whose scaled value fits
\* the wire integer, addX(v); reset(); getType(); getX() returns a value
\* within one unit of the kind's resolution of v (exactly v for a scale of 1).
C1_SensorRoundTrip ==
    /\ \A name \in ScalarKinds :
           Calls(<<"add" \o name, "reset", "getType", "get" \o name>>) /\ ~Overrun =>
               WithinUnit(Kind(name).value_t, hist[1].arg, Kind(name).multi, hist[4].ret)
    /\ \A name \in TripleKinds :
           Calls(<<"add" \o name, "reset", "getType", "get" \o name>>) /\ ~Overrun =>
               \A j \in 1..3 :
                   WithinUnit(Triple(name).value_t, hist[1].arg[j], Triple(name).multi[j],
                              hist[4].ret[j])

\* The kinds whose wire integer is a single byte (RelativeHumidity, Colour
\* and the 8-bit unsigned kinds) do round-trip.
C1_ByteKindsRoundTrip ==
    \A name \in ScalarKinds :
        Calls(<<"add" \o name, "reset", "getType", "get" \o name>>)
        /\ WireBytes(Kind(name).wire_t) = 1 =>
            WithinUnit(Kind(name).value_t, hist[1].arg, Kind(name).multi, hist[4].ret)

(***************************************************************************)
(* The specification of strings, booleans and null: up to two records are  *)
(* added and read back by the decode loop.                                 *)
(***************************************************************************)
\* "a", "hi", "hello world"
StringSamples ==
    {<<97>>, <<104, 105>>, <<104, 101, 108, 108, 111, 32, 119, 111, 114, 108, 100>>}

LimitSamples == {1, 2, 5}

\* Calls and buffer-writing calls per history.
StructCalls == 7

StructRecords == 2

InitStruct == Construct(Caps, {32})

NextStruct ==
    \/ CanAdd(StructCalls, StructRecords) /\ (\E str \in StringSamples : AddString(NoChannel, str))
    \/ CanAdd(StructCalls, StructRecords) /\ (\E b \in BOOLEAN : AddBool(NoChannel, b))
    \/ CanAdd(StructCalls, StructRecords) /\ AddNull(NoChannel)
    \/ CanCall(StructCalls) /\ GetString
    \/ CanCall(StructCalls) /\ (\E limit \in LimitSamples : GetStringLimit(limit))
    \/ CanCall(StructCalls) /\ GetBool
    \/ CanCall(StructCalls) /\ GetNull
    \/ CanCall(StructCalls) /\ GetType
    \/ CanCall(StructCalls) /\ Reset
    \/ Crash

SpecStruct == InitStruct /\ [][NextStruct]_vars

\* The first calls of the history are ops, in order.
Prefix(ops) == Len(hist) >= Len(ops) /\ \A k \in 1..Len(ops) : hist[k].op = ops[k]

\* C4: a string record is a tag byte followed by a null-terminated byte
\* sequence that stays null-terminated when more records are added: after
\* addString(s); add R; reset(); getType(); getString(buf); getType(); get R
\* the string read is exactly s, the cursor is then past its terminator, and
\* R is read back as it was added.
C4_StringThenRecord ==
    /\ Prefix(<<"addString", "addBool">>) /\ ~Overrun =>
           buf[hist[1].o] = 0 /\ hist[2].o = hist[1].o + 2
    /\ Prefix(<<"addString", "addBool", "reset", "getType", "getString">>) /\ ~Overrun =>
           hist[5].ret = hist[1].arg /\ hist[5].o = 1 + Len(hist[1].arg) + 1
    /\ Prefix(<<"addString", "addBool", "reset", "getType", "getString", "getType", "getBool">>)
       /\ ~Overrun =>
           hist[7].ret = hist[2].arg

\* C6: for every encoded string s of length L and every limit n, after
\* reset(); getType(); the bounded getString(buf, n) returns min(L, n),
\* places the first min(L, n) characters of s in buf and leaves the cursor
\* just past the terminator of s, whether s is truncated or shorter than n.
C6_BoundedGetString ==
    Calls(<<"addString", "reset", "getType", "getStringLimit">>) /\ hist[1].o < size =>
        LET str == hist[1].arg
            n == hist[4].arg
            copied == IF Len(str) < n THEN Len(str) ELSE n
        IN  /\ hist[4].ret.n = copied
            /\ SubSeq(hist[4].ret.str, 1, copied) = SubSeq(str, 1, copied)
            /\ o = 1 + Len(str) + 1

\* The part of C6 the code keeps: a limit of at most the length of s.
C6_TruncatingGetString ==
    Calls(<<"addString", "reset", "getType", "getStringLimit">>)
    /\ hist[1].o < size /\ hist[4].arg <= Len(hist[1].arg) =>
        /\ hist[4].ret.n = hist[4].arg
        /\ hist[4].ret.str = SubSeq(hist[1].arg, 1, hist[4].arg)
        /\ o = 1 + Len(hist[1].arg) + 1

\* C8: a boolean record is the tag byte alone: addBool(b) advances the
\* cursor by exactly 1, and getType() then getBool() recovers b while
\* consuming exactly that one byte, so that the cursor after the decode is
\* the cursor after the encode.
C8_BoolIsTagOnly ==
    /\ Prefix(<<"addBool">>) => hist[1].o = 1
    /\ Calls(<<"addBool", "reset", "getType", "getBool">>) /\ ~Overrun =>
           hist[4].ret = hist[1].arg /\ o = hist[1].o
    /\ Calls(<<"addBool", "addBool", "reset", "getType", "getBool">>) /\ ~Overrun =>
           hist[5].ret = hist[1].arg /\ o = hist[1].o

(***************************************************************************)
(* The specification of binary blobs.                                      *)
(***************************************************************************)
\* Blobs of 1, 3 and 128 bytes.
BinarySamples == {<<7>>, <<1, 0, 2>>, [j \in 1..128 |-> (j % 5) + 1]}

BinaryRecords == 1

InitBinary == Construct(Caps, {32})

NextBinary ==
    \/ CanAdd(MaxCalls, BinaryRecords) /\ (\E data \in BinarySamples : AddBinary(NoChannel, data))
    \/ CanCall(MaxCalls) /\ GetBinary
    \/ CanCall(MaxCalls) /\ GetType
    \/ CanCall(MaxCalls) /\ Reset
    \/ Crash

SpecBinary == InitBinary /\ [][NextBinary]_vars

\* The unsigned base-128 varint of a length, least significant group first.
RECURSIVE LengthPrefix(_)
LengthPrefix(n) == IF n >= 128 THEN <<(n % 128) + 128>> \o LengthPrefix(n \div 128) ELSE <<n>>

\* C5: for every byte sequence d of length len that fits the buffer,
\* including len >= 128, addBinary(d, len) writes the tag, varint(len) and
\* exactly the len bytes of d, and reset(); getType(); getBinary(out)
\* returns len, copies exactly those bytes into out and leaves the cursor
\* equal to the size recorded after the encode.
C5_BinaryRoundTrip ==
    /\ Prefix(<<"addBinary">>)
       /\ 1 + Len(LengthPrefix(Len(hist[1].arg))) + Len(hist[1].arg) <= size =>
           LET rec == <<XLPP_BINARY>> \o LengthPrefix(Len(hist[1].arg)) \o hist[1].arg
           IN  hist[1].o = Len(rec) /\ \A j \in 1..Len(rec) : buf[j - 1] = rec[j]
    /\ Calls(<<"addBinary", "reset", "getType", "getBinary">>)
       /\ 1 + Len(LengthPrefix(Len(hist[1].arg))) + Len(hist[1].arg) <= size =>
           /\ hist[4].ret.n = Len(hist[1].arg)
           /\ hist[4].ret.data = hist[1].arg
           /\ o = hist[1].o

(***************************************************************************)
(* The specification of objects and arrays.                                *)
(***************************************************************************)
\* "k", "id"
KeySamples == {<<107>>, <<105, 100>>}

ObjectCalls == 4

ObjectRecords == 4

InitObject == Construct(Caps, {32})

NextObject ==
    \/ CanAdd(ObjectCalls, ObjectRecords) /\ BeginObject(NoChannel)
    \/ CanAdd(ObjectCalls, ObjectRecords) /\ (\E key \in KeySamples : AddObjectKey(key))
    \/ CanAdd(ObjectCalls, ObjectRecords) /\ (\E v \in {Int64(5), Int64(-1)} : AddInteger(NoChannel, v))
    \/ CanAdd(ObjectCalls, ObjectRecords) /\ EndObject
    \/ CanAdd(ObjectCalls, ObjectRecords) /\ BeginArray(NoChannel)
    \/ CanAdd(ObjectCalls, ObjectRecords) /\ EndArray
    \/ Crash

SpecObject == InitObject /\ [][NextObject]_vars

\* C7: beginObject(); addObjectKey(k); addInteger(v); endObject() produces a
\* stream in which the key is a null-terminated string directly followed by
\* the value's type tag, so that a scanning decoder goes to depth 1 at the
\* begin marker, reads back exactly k and then v, and returns to depth 0
\* exactly at the end marker.
C7_ObjectStream ==
    Calls(<<"beginObject", "addObjectKey", "addInteger", "endObject">>) /\ ~Overrun =>
        LET m == Resolve(buf, 0)
            key == CStr(m, 1)
            tagAt == 1 + Len(key) + 1
            value == GetIntegerOp(m, tagAt + 1, 0)
        IN  /\ m[0] = XLPP_OBJECT
            /\ key = hist[2].arg
            /\ m[1 + Len(hist[2].arg)] = 0
            /\ m[tagAt] = XLPP_INTEGER
            /\ value.ret = hist[3].arg
            /\ m[value.o] = XLPP_END_OF_OBJECT
            /\ value.o + 1 = o

(***************************************************************************)
(* The specification of the capacity: every add, begin and end operation,  *)
(* with and without a channel, on small buffers.                           *)
(***************************************************************************)
Channels == {NoChannel, 3}

CapCalls == 3

CapRecords == 2

InitCap == Construct({4, 8}, {32})

NextCap ==
    \/ CanAdd(CapCalls, CapRecords)
       /\ \E ch \in Channels : \E name \in ScalarKinds :
              AddScalar(ch, name, CHOOSE v \in ScalarSamples(name) : TRUE)
    \/ CanAdd(CapCalls, CapRecords)
       /\ \E ch \in Channels : \E name \in TripleKinds :
              AddTriple(ch, name, CHOOSE v \in TripleSamples(name) : TRUE)
    \/ CanAdd(CapCalls, CapRecords) /\ (\E ch \in Channels : AddInteger(ch, Int64(5)))
    \/ CanAdd(CapCalls, CapRecords) /\ (\E ch \in Channels : AddString(ch, <<104, 105>>))
    \/ CanAdd(CapCalls, CapRecords) /\ (\E ch \in Channels : AddBool(ch, TRUE))
    \/ CanAdd(CapCalls, CapRecords) /\ (\E ch \in Channels : AddNull(ch))
    \/ CanAdd(CapCalls, CapRecords) /\ (\E ch \in Channels : AddBinary(ch, <<1, 0, 2>>))
    \/ CanAdd(CapCalls, CapRecords) /\ (\E ch \in Channels : BeginObject(ch))
    \/ CanAdd(CapCalls, CapRecords) /\ AddObjectKey(<<107>>)
    \/ CanAdd(CapCalls, CapRecords) /\ EndObject
    \/ CanAdd(CapCalls, CapRecords) /\ (\E ch \in Channels : BeginArray(ch))
    \/ CanAdd(CapCalls, CapRecords) /\ EndArray
    \/ CanCall(CapCalls) /\ GetChannel
    \/ CanCall(CapCalls) /\ GetType
    \/ CanCall(CapCalls) /\ Reset
    \/ Crash

SpecCap == InitCap /\ [][NextCap]_vars

\* C3: on an instance constructed with capacity C, after any sequence of
\* add/begin/end operations the cursor never exceeds C and no byte is
\* written at an index >= C: an add that would advance the cursor past C
\* fails instead (with capacity 4 a second addTemperature leaves the cursor
\* at 3).
C3_CapacityGuard ==
    /\ o <= size
    /\ getSize <= size
    /\ \A k \in Mem : k >= size => buf[k] = Uninit
    /\ size = 4 /\ Prefix(<<"addTemperature", "addTemperature">>) => hist[2].o = 3

====
